---------------------------- MODULE Spec2Model ----------------------------
(***************************************************************************)
(* Model of the retail-security-dashboard ingestion and aggregation code:  *)
(*   backend/database.py, backend/scrapers/city_data_scraper.py,           *)
(*   backend/scrapers/news_scraper.py, backend/pipeline/processor.py,      *)
(*   run_scraper.py, config/settings.py.                                   *)
(*                                                                         *)
(* Abstractions.                                                           *)
(*  - A text is the set of phrases it is made of.  `kw in text.lower()` is *)
(*    modelled by Contains: some phrase of the text, lowercased, has kw as *)
(*    a substring.  KeywordsIn tabulates, for every phrase of Vocabulary,  *)
(*    the keywords of the source's keyword lists that are substrings of it *)
(*    (None and '' are both the empty text: the code reads `x or ''`).     *)
(*  - A calendar date 'YYYY-MM-DD' is its day number; SQLite compares the  *)
(*    ISO strings, which is the order of the day numbers.                  *)
(*  - A table is the sequence of its rows in rowid order.                  *)
(*  - SQLite is the store (USE_POSTGRES is False unless DATABASE_URL is    *)
(*    set, and processor.py is written against sqlite3 only).              *)
(***************************************************************************)
EXTENDS Integers, Sequences, FiniteSets, TLC

Null == "NULL"          \* Python None / SQL NULL in a text-valued field
NoDate == 0             \* parse_date's (None, None): no usable date
NoCoord == 0 - 1000     \* SQL NULL in latitude / longitude

Range(s) == {s[i] : i \in 1..Len(s)}

Min(S) == CHOOSE x \in S : \A y \in S : x <= y

RECURSIVE SumOver(_, _)
SumOver(f, S) ==
    IF S = {} THEN 0
    ELSE LET x == CHOOSE y \in S : TRUE IN f[x] + SumOver(f, S \ {x})

(***************************************************************************)
(* Texts                                                                   *)
(***************************************************************************)
Vocabulary ==
    { "THEFT", "DECEPTIVE PRACTICE", "WEAPONS VIOLATION",
      "armed robbery at gunpoint", "petty shoplifting at Target",
      "organized theft ring, millions stolen",
      "mass shooting, murder spree by organized gang",
      "law enforcement", "Chicago police" }

(***************************************************************************)
(* Type normalizer and classifiers                                         *)
(***************************************************************************)
Taxonomy ==
    { "theft", "shoplifting", "robbery", "armed_robbery", "burglary",
      "assault", "homicide", "vandalism", "arson", "fraud", "trespass",
      "weapons", "drugs", "orc", "smash_grab", "other" }

CRIME_TYPE_MAPPINGS ==
    << <<"theft", {"theft", "larceny", "shoplifting", "retail theft",
                   "petit larceny", "grand larceny", "stealing"}>>,
       <<"robbery", {"robbery", "armed robbery", "strong arm robbery",
                     "mugging"}>>,
       <<"burglary", {"burglary", "breaking and entering", "b&e",
                      "break-in"}>>,
       <<"assault", {"assault", "battery", "aggravated assault",
                     "simple assault", "attack"}>>,
       <<"homicide", {"homicide", "murder", "manslaughter", "killing"}>>,
       <<"vandalism", {"vandalism", "criminal mischief", "property damage",
                       "graffiti"}>>,
       <<"arson", {"arson", "fire", "burning"}>>,
       <<"fraud", {"fraud", "forgery", "counterfeit", "identity theft",
                   "credit card fraud"}>>,
       <<"trespass", {"trespass", "trespassing", "criminal trespass"}>>,
       <<"weapons", {"weapons", "gun", "firearm", "knife"}>>,
       <<"drugs", {"drugs", "narcotics", "controlled substance",
                   "possession"}>> >>

police_codes ==
    << <<"theft", {"larceny", "stealing", "shoplifting", "pocket-picking",
                   "purse-snatching"}>>,
       <<"robbery", {"robbery", "strong-arm", "mugging"}>>,
       <<"burglary", {"burglary", "break", "entry", "b&e"}>>,
       <<"assault", {"assault", "battery", "agg assault"}>>,
       <<"fraud", {"fraud", "forgery", "embezzlement", "counterfeit"}>>,
       <<"vandalism", {"vandalism", "mischief", "damage", "graffiti"}>>,
       <<"weapons", {"weapon", "firearm", "gun", "knife"}>>,
       <<"drugs", {"drug", "narcotic", "controlled substance"}>> >>

classifications ==
    << <<"orc", {"organized retail crime", "orc", "theft ring", "crime ring",
                 "fencing operation"}>>,
       <<"smash_grab", {"smash and grab", "smash-and-grab", "flash mob",
                        "mob robbery"}>>,
       <<"armed_robbery", {"armed robbery", "gunpoint", "gun robbery",
                           "armed suspect"}>>,
       <<"robbery", {"robbery", "robbed", "robber"}>>,
       <<"assault", {"assault", "attacked", "violence", "violent",
                     "injured"}>>,
       <<"shoplifting", {"shoplifting", "shoplift", "shoplifter"}>>,
       <<"theft", {"theft", "stolen", "stole", "stealing", "larceny"}>>,
       <<"burglary", {"burglary", "break-in", "breaking and entering",
                      "broke into"}>>,
       <<"fraud", {"fraud", "scam", "counterfeit", "identity theft"}>>,
       <<"vandalism", {"vandalism", "vandalized", "graffiti",
                       "property damage"}>> >>

\* the escalating and de-escalating words of calculate_severity_from_type
escalation_words == {"aggravated", "felony", "armed", "weapon", "gun"}

deescalation_words == {"petty", "minor", "misdemeanor"}

\* the term lists of calculate_severity
violence_terms ==
    {"shot", "shooting", "stabbed", "killed", "murder", "dead", "weapon",
     "gun", "hostage"}

scale_terms ==
    {"million", "$100,000", "hundreds of thousands", "mass",
     "multiple stores", "spree"}

minor_terms == {"petty", "minor", "misdemeanor", "small"}

MAJOR_RETAILERS ==
    <<
      "walmart", "target", "costco", "kroger", "walgreens", "cvs",
      "home depot", "lowe's", "best buy", "macy's", "nordstrom", "tj maxx",
      "marshalls", "ross", "dollar general", "dollar tree", "7-eleven",
      "circle k", "wawa", "sheetz", "safeway", "albertsons", "whole foods",
      "trader joe's", "aldi", "publix", "h-e-b", "rite aid", "ulta",
      "sephora", "apple store", "nike", "foot locker",
      "dick's sporting goods", "rei", "academy sports", "autozone",
      "o'reilly", "advance auto", "pep boys", "bed bath", "pier 1",
      "pottery barn", "williams sonoma", "gamestop", "barnes noble",
      "staples", "office depot" >>

\* entries are <<name, name.title(), state, code>>, in dict order
major_cities ==
    << <<"new york", "New York", "New York", "NY">>,
       <<"los angeles", "Los Angeles", "California", "CA">>,
       <<"chicago", "Chicago", "Illinois", "IL">>,
       <<"houston", "Houston", "Texas", "TX">>,
       <<"phoenix", "Phoenix", "Arizona", "AZ">>,
       <<"philadelphia", "Philadelphia", "Pennsylvania", "PA">>,
       <<"san antonio", "San Antonio", "Texas", "TX">>,
       <<"san diego", "San Diego", "California", "CA">>,
       <<"dallas", "Dallas", "Texas", "TX">>,
       <<"san francisco", "San Francisco", "California", "CA">>,
       <<"austin", "Austin", "Texas", "TX">>,
       <<"seattle", "Seattle", "Washington", "WA">>,
       <<"denver", "Denver", "Colorado", "CO">>,
       <<"boston", "Boston", "Massachusetts", "MA">>,
       <<"atlanta", "Atlanta", "Georgia", "GA">>,
       <<"miami", "Miami", "Florida", "FL">>,
       <<"detroit", "Detroit", "Michigan", "MI">>,
       <<"minneapolis", "Minneapolis", "Minnesota", "MN">>,
       <<"portland", "Portland", "Oregon", "OR">>,
       <<"las vegas", "Las Vegas", "Nevada", "NV">>,
       <<"baltimore", "Baltimore", "Maryland", "MD">>,
       <<"milwaukee", "Milwaukee", "Wisconsin", "WI">>,
       <<"toronto", "Toronto", "Ontario", Null>>,
       <<"vancouver", "Vancouver", "British Columbia", Null>>,
       <<"montreal", "Montreal", "Quebec", Null>>,
       <<"calgary", "Calgary", "Alberta", Null>> >>

\* entries are <<name, name.title(), code>>, in dict order
us_states ==
    << <<"alabama", "Alabama", "AL">>,
       <<"alaska", "Alaska", "AK">>,
       <<"arizona", "Arizona", "AZ">>,
       <<"arkansas", "Arkansas", "AR">>,
       <<"california", "California", "CA">>,
       <<"colorado", "Colorado", "CO">>,
       <<"connecticut", "Connecticut", "CT">>,
       <<"delaware", "Delaware", "DE">>,
       <<"florida", "Florida", "FL">>,
       <<"georgia", "Georgia", "GA">>,
       <<"hawaii", "Hawaii", "HI">>,
       <<"idaho", "Idaho", "ID">>,
       <<"illinois", "Illinois", "IL">>,
       <<"indiana", "Indiana", "IN">>,
       <<"iowa", "Iowa", "IA">>,
       <<"kansas", "Kansas", "KS">>,
       <<"kentucky", "Kentucky", "KY">>,
       <<"louisiana", "Louisiana", "LA">>,
       <<"maine", "Maine", "ME">>,
       <<"maryland", "Maryland", "MD">>,
       <<"massachusetts", "Massachusetts", "MA">>,
       <<"michigan", "Michigan", "MI">>,
       <<"minnesota", "Minnesota", "MN">>,
       <<"mississippi", "Mississippi", "MS">>,
       <<"missouri", "Missouri", "MO">>,
       <<"montana", "Montana", "MT">>,
       <<"nebraska", "Nebraska", "NE">>,
       <<"nevada", "Nevada", "NV">>,
       <<"new hampshire", "New Hampshire", "NH">>,
       <<"new jersey", "New Jersey", "NJ">>,
       <<"new mexico", "New Mexico", "NM">>,
       <<"new york", "New York", "NY">>,
       <<"north carolina", "North Carolina", "NC">>,
       <<"north dakota", "North Dakota", "ND">>,
       <<"ohio", "Ohio", "OH">>,
       <<"oklahoma", "Oklahoma", "OK">>,
       <<"oregon", "Oregon", "OR">>,
       <<"pennsylvania", "Pennsylvania", "PA">>,
       <<"rhode island", "Rhode Island", "RI">>,
       <<"south carolina", "South Carolina", "SC">>,
       <<"south dakota", "South Dakota", "SD">>,
       <<"tennessee", "Tennessee", "TN">>,
       <<"texas", "Texas", "TX">>,
       <<"utah", "Utah", "UT">>,
       <<"vermont", "Vermont", "VT">>,
       <<"virginia", "Virginia", "VA">>,
       <<"washington", "Washington", "WA">>,
       <<"west virginia", "West Virginia", "WV">>,
       <<"wisconsin", "Wisconsin", "WI">>,
       <<"wyoming", "Wyoming", "WY">> >>

\* the city and state names extract_location_from_text looks for
PlaceNames ==
    {major_cities[i][1] : i \in 1..Len(major_cities)}
      \cup {us_states[i][1] : i \in 1..Len(us_states)}

\* the keywords of a keyword table
TableKeywords(table) == UNION {table[i][2] : i \in 1..Len(table)}

\* every keyword the code looks for in a text
Keywords ==
    TableKeywords(CRIME_TYPE_MAPPINGS) \cup TableKeywords(police_codes)
      \cup TableKeywords(classifications)
      \cup escalation_words \cup deescalation_words
      \cup violence_terms \cup scale_terms \cup minor_terms
      \cup {"organized", "retail"} \cup Range(MAJOR_RETAILERS)
      \cup PlaceNames

\* str.lower()
Lower(p) ==
    CASE p = "THEFT" -> "theft"
      [] p = "DECEPTIVE PRACTICE" -> "deceptive practice"
      [] p = "WEAPONS VIOLATION" -> "weapons violation"
      [] p = "petty shoplifting at Target" -> "petty shoplifting at target"
      [] p = "Chicago police" -> "chicago police"
      [] OTHER -> p

\* the keywords of the source's keyword lists that occur in a lowercase phrase
KeywordsIn(p) ==
    CASE p = "theft" -> {"theft"}
      [] p = "deceptive practice" -> {}
      [] p = "weapons violation" -> {"weapon", "weapons"}
      [] p = "armed robbery at gunpoint" ->
           {"armed", "armed robbery", "gun", "gunpoint", "robber", "robbery"}
      [] p = "petty shoplifting at target" ->
           {"petty", "shoplift", "shoplifting", "target"}
      [] p = "organized theft ring, millions stolen" ->
           {"million", "organized", "stole", "stolen", "theft", "theft ring"}
      [] p = "mass shooting, murder spree by organized gang" ->
           {"mass", "murder", "organized", "shooting", "spree"}
      [] p = "law enforcement" -> {"orc"}
      [] p = "chicago police" -> {"chicago"}
      \* a keyword standing alone, with the keywords that are substrings of it
      [] p = "agg assault" -> {"agg assault", "assault"}
      [] p = "aggravated assault" ->
           {"aggravated", "aggravated assault", "assault"}
      [] p = "arkansas" -> {"arkansas", "kansas"}
      [] p = "armed robbery" ->
           {"armed", "armed robbery", "robber", "robbery"}
      [] p = "armed suspect" -> {"armed", "armed suspect"}
      [] p = "attacked" -> {"attack", "attacked"}
      [] p = "break-in" -> {"break", "break-in"}
      [] p = "breaking and entering" -> {"break", "breaking and entering"}
      [] p = "credit card fraud" -> {"credit card fraud", "fraud"}
      [] p = "criminal mischief" -> {"criminal mischief", "mischief"}
      [] p = "criminal trespass" -> {"criminal trespass", "trespass"}
      [] p = "drugs" -> {"drug", "drugs"}
      [] p = "firearm" -> {"fire", "firearm"}
      [] p = "grand larceny" -> {"grand larceny", "larceny"}
      [] p = "gun robbery" -> {"gun", "gun robbery", "robber", "robbery"}
      [] p = "gunpoint" -> {"gun", "gunpoint"}
      [] p = "identity theft" -> {"identity theft", "theft"}
      [] p = "massachusetts" -> {"mass", "massachusetts"}
      [] p = "mob robbery" -> {"mob robbery", "robber", "robbery"}
      [] p = "narcotics" -> {"narcotic", "narcotics"}
      [] p = "o'reilly" -> {"o'reilly", "rei"}
      [] p = "organized retail crime" ->
           {"organized", "organized retail crime", "retail"}
      [] p = "petit larceny" -> {"larceny", "petit larceny"}
      [] p = "property damage" -> {"damage", "property damage"}
      [] p = "retail theft" -> {"retail", "retail theft", "theft"}
      [] p = "robbery" -> {"robber", "robbery"}
      [] p = "shoplifter" -> {"shoplift", "shoplifter"}
      [] p = "shoplifting" -> {"shoplift", "shoplifting"}
      [] p = "simple assault" -> {"assault", "simple assault"}
      [] p = "stolen" -> {"stole", "stolen"}
      [] p = "strong arm robbery" ->
           {"robber", "robbery", "strong arm robbery"}
      [] p = "theft ring" -> {"theft", "theft ring"}
      [] p = "trespassing" -> {"trespass", "trespassing"}
      [] p = "weapons" -> {"weapon", "weapons"}
      [] p = "west virginia" -> {"virginia", "west virginia"}
      [] OTHER -> IF p \in Keywords THEN {p} ELSE {}

\* kw in text.lower()
Contains(text, kw) == \E p \in text : kw \in KeywordsIn(Lower(p))

\* any(kw in text.lower() for kw in kws)
ContainsAny(text, kws) == \E kw \in kws : Contains(text, kw)

\* the last entry, in table order, one of whose keywords occurs in the text
LastMatch(table, text) ==
    LET hits == {i \in 1..Len(table) : ContainsAny(text, table[i][2])}
    IN  IF hits = {} THEN Null
        ELSE table[CHOOSE i \in hits : \A j \in hits : j <= i][1]

\* the first entry, in table order, one of whose keywords occurs in the text
FirstMatch(table, text) ==
    LET hits == {i \in 1..Len(table) : ContainsAny(text, table[i][2])}
    IN  IF hits = {} THEN Null ELSE table[Min(hits)][1]

normalize_crime_type(raw_type) ==
    IF raw_type = {} THEN "other"
    ELSE IF FirstMatch(CRIME_TYPE_MAPPINGS, raw_type) # Null
         THEN FirstMatch(CRIME_TYPE_MAPPINGS, raw_type)
    ELSE IF FirstMatch(police_codes, raw_type) # Null
         THEN FirstMatch(police_codes, raw_type)
    ELSE "other"

classify_incident_type(text) ==
    IF FirstMatch(classifications, text) # Null
    THEN FirstMatch(classifications, text)
    ELSE "other"

(***************************************************************************)
(* Severity estimators                                                     *)
(***************************************************************************)
type_severity(incident_type) ==
    CASE incident_type \in {"homicide", "armed_robbery"} -> 5
      [] incident_type \in {"assault", "robbery", "orc", "smash_grab",
                            "arson", "weapons"} -> 4
      [] incident_type = "burglary" -> 3
      [] incident_type \in {"theft", "shoplifting", "fraud", "vandalism",
                            "drugs", "other"} -> 2
      [] incident_type = "trespass" -> 1
      [] OTHER -> 2

IMin(a, b) == IF a <= b THEN a ELSE b
IMax(a, b) == IF a >= b THEN a ELSE b

\* a calculate_severity_from_type that de-escalates before it escalates
calculate_severity_from_type_deesc_first(incident_type, description) ==
    LET base == type_severity(incident_type)
        de   == IF ContainsAny(description, deescalation_words)
                THEN IMax(1, base - 1) ELSE base
    IN  IF ContainsAny(description, escalation_words)
        THEN IMin(5, de + 1) ELSE de

calculate_severity_from_type(incident_type, description) ==
    LET base == type_severity(incident_type)
        esc  == IF ContainsAny(description, escalation_words)
                THEN IMin(5, base + 1) ELSE base
    IN  IF ContainsAny(description, deescalation_words)
        THEN IMax(1, esc - 1) ELSE esc

SeverityClampNone(severity) == severity

SeverityClamp(severity) == IMax(1, IMin(5, severity))

\* a calculate_severity whose minor terms raise the score
calculate_severity_minor_up(text, incident_type) ==
    LET s0 == 2
        s1 == IF ContainsAny(text, violence_terms) THEN s0 + 2 ELSE s0
        s2 == IF incident_type = "orc" \/ Contains(text, "organized")
              THEN s1 + 1 ELSE s1
        s3 == IF ContainsAny(text, scale_terms) THEN s2 + 1 ELSE s2
        s4 == IF ContainsAny(text, minor_terms) THEN s3 + 1 ELSE s3
    IN  SeverityClamp(s4)

calculate_severity(text, incident_type) ==
    LET s0 == 2
        s1 == IF ContainsAny(text, violence_terms)
              THEN s0 + 2 ELSE s0
        s2 == IF incident_type = "orc" \/ Contains(text, "organized")
              THEN s1 + 1 ELSE s1
        s3 == IF ContainsAny(text, scale_terms)
              THEN s2 + 1 ELSE s2
        s4 == IF ContainsAny(text, minor_terms)
              THEN s3 - 1 ELSE s3
    IN  SeverityClamp(s4)


(***************************************************************************)
(* Configuration and the upstream feeds                                    *)
(***************************************************************************)
MaxBatch == 2       \* longest list of raw records one fetch returns
MaxRows == 2        \* cap on the rows of the incidents table
NumSeeds == 2       \* distinct string-hash seeds an interpreter may draw
MaxRowId == 6       \* cap on the AUTOINCREMENT counters of derived tables

WindowDays == 90    \* date('now', '-90 days')
Today == 100        \* date('now'), as a day number
NewsDaysBack == 14  \* run_full_scrape: min(days_back, 14) with days_back = 30

\* two of the configured cities, one per country
CityKeys == {"chicago", "toronto"}

\* a city configuration that spells the code of the United States "USA"
CITY_DATA_SOURCES_usa(city_key) ==
    CASE city_key = "chicago" ->
           [country |-> "United States", country_code |-> "USA",
            state |-> "Illinois", city |-> "Chicago"]
      [] city_key = "toronto" ->
           [country |-> "Canada", country_code |-> "CA",
            state |-> "Ontario", city |-> "Toronto"]

CITY_DATA_SOURCES(city_key) ==
    CASE city_key = "chicago" ->
           [country |-> "United States", country_code |-> "US",
            state |-> "Illinois", city |-> "Chicago"]
      [] city_key = "toronto" ->
           [country |-> "Canada", country_code |-> "CA",
            state |-> "Ontario", city |-> "Toronto"]

\* A raw record after the field_map lookups of fetch_city_data: the values of
\* the id, date, type, description, latitude and longitude fields.
RawRecord(id, date, type, description, latitude, longitude) ==
    [id |-> id, date |-> date, type |-> type, description |-> description,
     latitude |-> latitude, longitude |-> longitude]

\* what the feed of a city can serve
CityFeed(city_key) ==
    IF city_key = "chicago" THEN
      { RawRecord("101", "2026-11-03T09:30:00.000", "THEFT",
                  "petty shoplifting at Target", "41.88", "-87.63"),
        \* the same upstream item after the agency revised it
        RawRecord("101", "11/02/2026", "DECEPTIVE PRACTICE", Null,
                  "41.88", "-87.63"),
        \* no natural id, a latitude but no longitude
        RawRecord(Null, "2026-11-03T09:30:00.000", "WEAPONS VIOLATION",
                  "armed robbery at gunpoint", "41.88", Null),
        \* no parsable date
        RawRecord("102", "03.11.2026", "THEFT", Null, Null, Null) }
    ELSE
      \* older than the trend window, no type, malformed latitude
      { RawRecord("101", "2026-08-04", Null, "law enforcement",
                  "N/A", "-79.38") }

\* an article / feed entry: link, title, summary, publication date
RawArticle(url, title, description, published) ==
    [url |-> url, title |-> title, description |-> description,
     published |-> published]

NewsSources == {"newsapi", "google_news", "industry_rss"}

NewsFeed ==
    { RawArticle("https://n.example/1",
                 "organized theft ring, millions stolen", "law enforcement",
                 "2026-11-03T09:30:00.000"),
      \* an entry without a publication date
      RawArticle("https://n.example/2",
                 "mass shooting, murder spree by organized gang",
                 "Chicago police", Null) }

\* lists of length 0..n over S
SeqsUpTo(S, n) == UNION {[1..k -> S] : k \in 0..n}

(***************************************************************************)
(* city_data_scraper.py                                                    *)
(***************************************************************************)
\* parse_date: the day number of the date a raw value denotes, NoDate when it
\* is missing or matches none of the formats
parse_date(date_str) ==
    CASE date_str = Null -> NoDate
      [] date_str = "2026-11-03T09:30:00.000" -> 100
      [] date_str = "11/03/2026" -> 100
      [] date_str = "11/02/2026" -> 99
      [] date_str = "2026-11-02" -> 99
      [] date_str = "2026-08-05" -> 10
      [] date_str = "2026-08-04" -> 9
      [] OTHER -> NoDate

\* float(): the number a string denotes, in hundredths
IsFloat(s) == s \in {"41.88", "-87.63", "-79.38"}

ToFloat(s) ==
    CASE s = "41.88" -> 4188
      [] s = "-87.63" -> 0 - 8763
      [] s = "-79.38" -> 0 - 7938

\* json.dumps(record, default=str)
JsonDumps(record) ==
    "{id:" \o record.id \o ",date:" \o record.date \o ",type:" \o record.type
      \o ",description:" \o record.description
      \o ",latitude:" \o record.latitude
      \o ",longitude:" \o record.longitude \o "}"

\* hash() of a str, rendered in a format string.  CPython salts the hash of
\* str with a per-interpreter random seed (PYTHONHASHSEED): the value is a
\* function of the seed and the string.
PyHash(seed, s) == "hash" \o ToString(seed) \o "(" \o s \o ")"

SourceIdOf(city_key, record, seed) ==
    IF record.id # Null
    THEN city_key \o "_" \o record.id
    ELSE city_key \o "_" \o PyHash(seed, JsonDumps(record))

\* the try block that converts latitude and longitude
ConvertCoords(lat, lon) ==
    IF (lat # Null /\ ~IsFloat(lat)) \/ (lon # Null /\ ~IsFloat(lon))
    THEN [latitude |-> NoCoord, longitude |-> NoCoord]
    ELSE [latitude |-> IF lat # Null THEN ToFloat(lat) ELSE NoCoord,
          longitude |-> IF lon # Null THEN ToFloat(lon) ELSE NoCoord]

\* the incident dict built for one dated record (no 'severity' key)
CityIncident(city_key, record, seed) ==
    LET config == CITY_DATA_SOURCES(city_key)
        coords == ConvertCoords(record.latitude, record.longitude)
    IN  [source_id |-> SourceIdOf(city_key, record, seed),
         source_type |-> "police_api",
         source_name |-> city_key,
         title |-> Null,
         description |-> record.description,
         incident_type |-> record.type,
         country |-> config.country,
         country_code |-> config.country_code,
         state_province |-> config.state,
         city |-> config.city,
         latitude |-> coords.latitude,
         longitude |-> coords.longitude,
         incident_date |-> parse_date(record.date),
         raw_data |-> record]

\* CityIncident, tabulated over the feeds and the seeds
CityIncidents ==
    [city_key \in CityKeys |->
       [record \in CityFeed(city_key) |->
          [seed \in 1..NumSeeds |-> CityIncident(city_key, record, seed)]]]

\* the loop over the records: undated records are skipped
RECURSIVE CityTransform(_, _, _)
CityTransform(city_key, data, seed) ==
    IF data = <<>> THEN <<>>
    ELSE IF parse_date(Head(data).date) = NoDate
         THEN CityTransform(city_key, Tail(data), seed)
         ELSE <<CityIncidents[city_key][Head(data)][seed]>>
                \o CityTransform(city_key, Tail(data), seed)

\* fetch_city_data: response.ok is FALSE for a RequestException or a
\* JSONDecodeError, response.data is the list of raw records otherwise
fetch_city_data(city_key, response, seed) ==
    IF ~response.ok THEN <<>>
    ELSE CityTransform(city_key, response.data, seed)


(***************************************************************************)
(* news_scraper.py                                                         *)
(***************************************************************************)
NoLocation ==
    [country |-> Null, country_code |-> Null, state_province |-> Null,
     city |-> Null]

\* an extract_location_from_text that scans the state names first
extract_location_from_text_states_first(text) ==
    LET cityHits == {i \in 1..Len(major_cities) :
                        Contains(text, major_cities[i][1])}
        stateHits == {i \in 1..Len(us_states) :
                        Contains(text, us_states[i][1])}
    IN  IF stateHits # {}
        THEN [country |-> "United States", country_code |-> "US",
              state_province |-> us_states[Min(stateHits)][2],
              city |-> Null]
        ELSE IF cityHits # {}
        THEN LET c == major_cities[Min(cityHits)]
             IN  [country |-> IF c[4] # Null THEN "United States"
                              ELSE "Canada",
                  country_code |-> IF c[4] # Null THEN "US" ELSE "CA",
                  state_province |-> c[3],
                  city |-> c[2]]
        ELSE NoLocation

extract_location_from_text(text) ==
    LET cityHits == {i \in 1..Len(major_cities) :
                        Contains(text, major_cities[i][1])}
        stateHits == {i \in 1..Len(us_states) :
                        Contains(text, us_states[i][1])}
    IN  IF cityHits # {}
        THEN LET c == major_cities[Min(cityHits)]
             IN  [country |-> IF c[4] # Null THEN "United States"
                              ELSE "Canada",
                  country_code |-> IF c[4] # Null THEN "US" ELSE "CA",
                  state_province |-> c[3],
                  city |-> c[2]]
        ELSE IF stateHits # {}
        THEN [country |-> "United States", country_code |-> "US",
              state_province |-> us_states[Min(stateHits)][2],
              city |-> Null]
        ELSE NoLocation

\* f"{title} {description}": the phrases of both fields
FullText(article) == {article.title, article.description} \ {Null}

\* str.title() on the names of MAJOR_RETAILERS
Title(name) ==
    CASE name = "walmart" -> "Walmart"
      [] name = "target" -> "Target"
      [] name = "costco" -> "Costco"
      [] name = "kroger" -> "Kroger"
      [] name = "walgreens" -> "Walgreens"
      [] name = "cvs" -> "Cvs"
      [] name = "home depot" -> "Home Depot"
      [] name = "lowe's" -> "Lowe'S"
      [] name = "best buy" -> "Best Buy"
      [] name = "macy's" -> "Macy'S"
      [] name = "nordstrom" -> "Nordstrom"
      [] name = "tj maxx" -> "Tj Maxx"
      [] name = "marshalls" -> "Marshalls"
      [] name = "ross" -> "Ross"
      [] name = "dollar general" -> "Dollar General"
      [] name = "dollar tree" -> "Dollar Tree"
      [] name = "7-eleven" -> "7-Eleven"
      [] name = "circle k" -> "Circle K"
      [] name = "wawa" -> "Wawa"
      [] name = "sheetz" -> "Sheetz"
      [] name = "safeway" -> "Safeway"
      [] name = "albertsons" -> "Albertsons"
      [] name = "whole foods" -> "Whole Foods"
      [] name = "trader joe's" -> "Trader Joe'S"
      [] name = "aldi" -> "Aldi"
      [] name = "publix" -> "Publix"
      [] name = "h-e-b" -> "H-E-B"
      [] name = "rite aid" -> "Rite Aid"
      [] name = "ulta" -> "Ulta"
      [] name = "sephora" -> "Sephora"
      [] name = "apple store" -> "Apple Store"
      [] name = "nike" -> "Nike"
      [] name = "foot locker" -> "Foot Locker"
      [] name = "dick's sporting goods" -> "Dick'S Sporting Goods"
      [] name = "rei" -> "Rei"
      [] name = "academy sports" -> "Academy Sports"
      [] name = "autozone" -> "Autozone"
      [] name = "o'reilly" -> "O'Reilly"
      [] name = "advance auto" -> "Advance Auto"
      [] name = "pep boys" -> "Pep Boys"
      [] name = "bed bath" -> "Bed Bath"
      [] name = "pier 1" -> "Pier 1"
      [] name = "pottery barn" -> "Pottery Barn"
      [] name = "williams sonoma" -> "Williams Sonoma"
      [] name = "gamestop" -> "Gamestop"
      [] name = "barnes noble" -> "Barnes Noble"
      [] name = "staples" -> "Staples"
      [] name = "office depot" -> "Office Depot"

\* an extract_retailers that returns at its first match
extract_retailers_first_match(text) ==
    IF text = {} THEN <<>>
    ELSE LET found == SelectSeq(MAJOR_RETAILERS,
                               LAMBDA r : Contains(text, r))
         IN  IF found = <<>> THEN <<>> ELSE <<Title(found[1])>>

\* extract_retailers: `if not text: return []`, then one pass over
\* MAJOR_RETAILERS appending retailer.title() for every name in the text
extract_retailers(text) ==
    IF text = {} THEN <<>>
    ELSE LET found == SelectSeq(MAJOR_RETAILERS,
                               LAMBDA r : Contains(text, r))
         IN  [i \in 1..Len(found) |-> Title(found[i])]

\* hashlib.md5(url.encode()).hexdigest()
Md5Hex(url) == "md5(" \o url \o ")"

NewsSourceId(source, article) ==
    CASE source = "newsapi" -> "newsapi_" \o Md5Hex(article.url)
      [] source = "google_news" -> "gnews_" \o Md5Hex(article.url)
      [] source = "industry_rss" ->
           "rss_" \o "lp_magazine" \o "_" \o Md5Hex(article.url)

\* the 'YYYY-MM-DD' date of an article: publishedAt[:10] (NewsAPI) or the
\* strftime of published_parsed (feeds); NoDate when the entry has none
pub_date(published) ==
    CASE published = "2026-11-03T09:30:00.000" -> 100
      [] published = "2026-11-02" -> 99
      [] published = "2026-08-05" -> 10
      [] OTHER -> NoDate

\* the incident dict built for one article or feed entry
NewsIncident(source, article) ==
    LET full_text == FullText(article)
        location == extract_location_from_text(full_text)
        incident_type == classify_incident_type(full_text)
    IN  [source_id |-> NewsSourceId(source, article),
         source_type |-> IF source = "industry_rss" THEN "rss" ELSE "news",
         source_name |-> IF source = "industry_rss" THEN "lp_magazine"
                         ELSE source,
         title |-> article.title,
         description |-> article.description,
         incident_type |-> incident_type,
         severity |-> calculate_severity(full_text, incident_type),
         country |-> location.country,
         country_code |-> location.country_code,
         state_province |-> location.state_province,
         city |-> location.city,
         latitude |-> NoCoord,
         longitude |-> NoCoord,
         retailer_mentioned |-> extract_retailers(full_text),
         is_retail_related |->
             \/ source = "industry_rss"
             \/ Len(extract_retailers(full_text)) > 0
             \/ Contains(full_text, "retail"),
         incident_date |-> pub_date(article.published),
         raw_data |-> article]

\* fetch_google_news_rss skips an entry whose date is older than days_back
TooOld(source, article) ==
    /\ source = "google_news"
    /\ pub_date(article.published) # NoDate
    /\ pub_date(article.published) <= Today - NewsDaysBack

\* NewsIncident, tabulated over the sources and the feed
NewsIncidents ==
    [source \in NewsSources |->
       [article \in NewsFeed |-> NewsIncident(source, article)]]

\* the loop over the articles or entries
RECURSIVE NewsTransform(_, _)
NewsTransform(source, entries) ==
    IF entries = <<>> THEN <<>>
    ELSE IF TooOld(source, Head(entries))
         THEN NewsTransform(source, Tail(entries))
         ELSE <<NewsIncidents[source][Head(entries)]>>
                \o NewsTransform(source, Tail(entries))

\* "Deduplicate by source_id": keep the first incident of every source_id
RECURSIVE Deduplicate(_, _)
Deduplicate(incs, seen) ==
    IF incs = <<>> THEN <<>>
    ELSE IF Head(incs).source_id \in seen
         THEN Deduplicate(Tail(incs), seen)
         ELSE <<Head(incs)>>
                \o Deduplicate(Tail(incs), seen \cup {Head(incs).source_id})

\* fetch_newsapi, fetch_google_news_rss, fetch_industry_rss: response.ok is
\* FALSE when every request failed (or NEWS_API_KEY is unset)
fetch_news(source, response) ==
    IF ~response.ok THEN <<>>
    ELSE IF source = "industry_rss"
         THEN NewsTransform(source, response.data)
         ELSE Deduplicate(NewsTransform(source, response.data), {})


(***************************************************************************)
(* database.py                                                             *)
(***************************************************************************)
\* get_connection() is a @contextmanager generator function: calling it
\* returns the context manager, and entering it (`with ... as conn`) yields
\* the sqlite3 connection.
GetConnection == "_GeneratorContextManager"

EnterContext(cm) == "Connection"

\* whether obj.execute / obj.cursor / obj.commit exist
IsConnection(obj) == obj = "Connection"

\* incident.get(key, default)
DictGet(incident, key, default) ==
    IF key \in DOMAIN incident THEN incident[key] ELSE default

\* the row the INSERT statement of insert_incident stores; id is the
\* AUTOINCREMENT rowid (no row of incidents is ever deleted)
IncidentRow(view, incident) ==
    [id |-> Len(view) + 1,
     source_id |-> incident.source_id,
     source_type |-> incident.source_type,
     source_name |-> incident.source_name,
     title |-> incident.title,
     description |-> incident.description,
     incident_type |-> DictGet(incident, "incident_type", "unknown"),
     severity |-> DictGet(incident, "severity", 1),
     country |-> incident.country,
     country_code |-> incident.country_code,
     state_province |-> incident.state_province,
     city |-> incident.city,
     latitude |-> incident.latitude,
     longitude |-> incident.longitude,
     retailer_mentioned |-> DictGet(incident, "retailer_mentioned", <<>>),
     is_retail_related |-> DictGet(incident, "is_retail_related", FALSE),
     incident_date |-> incident.incident_date,
     raw_data |-> incident.raw_data]

\* a source_id column without the UNIQUE constraint
UniqueViolationNever(view, incident) == FALSE

\* source_id TEXT UNIQUE: the INSERT fails when a row of the connection's
\* view has the same non-NULL source_id
UniqueViolation(view, incident) ==
    /\ incident.source_id # Null
    /\ \E i \in 1..Len(view) : view[i].source_id = incident.source_id

\* str(e) of the errors the store can raise on the INSERT besides a
\* constraint violation
StoreErrors == {"database is locked"}

\* the exception class of a store error
ErrorType(msg) ==
    IF msg = "database is locked" THEN "OperationalError"
    ELSE "IntegrityError"

\* an except clause that takes every error for a duplicate
IsDuplicateErrorAlways(msg) == TRUE

\* 'UNIQUE constraint' in str(e) or 'duplicate key' in str(e).lower()
IsDuplicateError(msg) ==
    msg = "UNIQUE constraint failed: incidents.source_id"

\* an insert that overwrites the stored row on a source_id collision
insert_incident_upsert(view, incident, store_error) ==
    IF store_error # Null
    THEN [rows |-> view, ok |-> FALSE, raised |-> store_error]
    ELSE IF UniqueViolation(view, incident)
    THEN [rows |-> [i \in 1..Len(view) |->
                      IF view[i].source_id = incident.source_id
                      THEN [IncidentRow(view, incident)
                              EXCEPT !.id = view[i].id]
                      ELSE view[i]],
          ok |-> FALSE, raised |-> Null]
    ELSE [rows |-> Append(view, IncidentRow(view, incident)), ok |-> TRUE,
          raised |-> Null]

\* insert_incident: the connection's view after the call, the value returned
\* and the error raised.  store_error is the error the store raises on the
\* INSERT for a reason other than a constraint (Null: none).
insert_incident(view, incident, store_error) ==
    LET e == IF store_error # Null THEN store_error
             ELSE IF UniqueViolation(view, incident)
                  THEN "UNIQUE constraint failed: incidents.source_id"
                  ELSE Null
    IN  IF e = Null
        THEN [rows |-> Append(view, IncidentRow(view, incident)),
              ok |-> TRUE, raised |-> Null]
        ELSE IF IsDuplicateError(e)
             THEN [rows |-> view, ok |-> FALSE, raised |-> Null]
             ELSE [rows |-> view, ok |-> FALSE, raised |-> e]

\* a connection whose close() commits the open transaction
CloseCommits(committed, view) == view

\* get_connection's `finally: conn.close()` on a connection with uncommitted
\* changes: the changes are discarded
Close(committed, view) == committed

\* update_source_status: the upsert into sources
update_source_status(srcs, source_name, success, incident_count) ==
    [srcs EXCEPT ![source_name] =
        [known |-> TRUE,
         last_success |-> success,
         total_incidents |->
            (IF srcs[source_name].known
             THEN srcs[source_name].total_incidents ELSE 0)
            + incident_count]]

StatusNames == {"city_" \o k : k \in CityKeys} \cup NewsSources


(***************************************************************************)
(* processor.py                                                            *)
(***************************************************************************)
\* some enumeration of a finite set (the order rows come out of a GROUP BY)
OrderOf(S) == CHOOSE f \in [1..Cardinality(S) -> S] : Range(f) = S

\* AVG(column) over the rows idx of a table as <<sum, count>> of its non-NULL
\* values; <<0, 0>> is SQL NULL
Avg(rows, idx, column, null) ==
    LET nn == {i \in idx : rows[i][column] # null}
    IN  <<SumOver([i \in nn |-> rows[i][column]], nn), Cardinality(nn)>>

WindowStart == Today - WindowDays

\* incident_date >= date('now', '-90 days') AND incident_date IS NOT NULL
InWindow(date) == date # NoDate /\ date >= WindowStart

\* the rows update_incident_classifications selects
NeedsClassification(row) ==
    \/ row.incident_type = Null
    \/ row.incident_type = ""
    \/ row.incident_type = "other"
    \/ row.severity = 0

Reclassified(row) ==
    LET description == {row.description} \ {Null}
        raw_type == {row.incident_type} \ {Null, ""}
        normalized_type == normalize_crime_type(raw_type \cup description)
    IN  [row EXCEPT !.incident_type = normalized_type,
                    !.severity = calculate_severity_from_type(
                                     normalized_type, description)]

\* update_incident_classifications on the object conn: the incidents table
\* after the call, how the call ended and the value returned
update_incident_classifications(conn, incs) ==
    IF ~IsConnection(conn)
    THEN [outcome |-> "AttributeError", incidents |-> incs, value |-> 0]
    ELSE [outcome |-> "returned",
          incidents |-> [i \in 1..Len(incs) |->
                           IF NeedsClassification(incs[i])
                           THEN Reclassified(incs[i]) ELSE incs[i]],
          value |-> Cardinality({i \in 1..Len(incs) :
                                   NeedsClassification(incs[i])})]

TrendKey(row) ==
    <<row.incident_date, row.country, row.state_province, row.city,
      row.incident_type>>

\* the SELECT ... GROUP BY of update_daily_trends: one row per group
TrendGroups(incs) ==
    LET idx == {i \in 1..Len(incs) : InWindow(incs[i].incident_date)}
        keys == {TrendKey(incs[i]) : i \in idx}
    IN  { [date |-> k[1], country |-> k[2], state_province |-> k[3],
           city |-> k[4], incident_type |-> k[5],
           incident_count |->
               Cardinality({i \in idx : TrendKey(incs[i]) = k}),
           avg_severity |->
               Avg(incs, {i \in idx : TrendKey(incs[i]) = k},
                   "severity", 0 - 1)] : k \in keys }

\* rows appended to a table with AUTOINCREMENT ids above seq
WithIds(groups, seq) ==
    LET order == OrderOf(groups)
    IN  [i \in 1..Cardinality(groups) |->
            [id |-> seq + i] @@ order[i]]

\* update_daily_trends on the object conn
update_daily_trends(conn, incs, trends, seq) ==
    IF ~IsConnection(conn)
    THEN [outcome |-> "AttributeError", table |-> trends, seq |-> seq,
          value |-> 0]
    ELSE LET kept == SelectSeq(trends, LAMBDA r : ~(r.date >= WindowStart))
             fresh == WithIds(TrendGroups(incs), seq)
         IN  [outcome |-> "returned",
              table |-> kept \o fresh,
              seq |-> seq + Len(fresh),
              value |-> Len(fresh)]

LocationKey(row) ==
    <<row.country, row.country_code, row.state_province, row.city>>

\* the SELECT ... GROUP BY of update_location_summaries
LocationGroups(incs) ==
    LET idx == {i \in 1..Len(incs) : incs[i].country # Null}
        keys == {LocationKey(incs[i]) : i \in idx}
    IN  { [country |-> k[1], country_code |-> k[2], state_province |-> k[3],
           city |-> k[4],
           latitude |-> Avg(incs, {i \in idx : LocationKey(incs[i]) = k},
                            "latitude", NoCoord),
           longitude |-> Avg(incs, {i \in idx : LocationKey(incs[i]) = k},
                             "longitude", NoCoord),
           incident_count |->
               Cardinality({i \in idx : LocationKey(incs[i]) = k})]
          : k \in keys }

\* UNIQUE(country, state_province, city); NULLs never collide
LocationsUniqueViolation(groups) ==
    \E g, h \in groups :
        /\ g # h
        /\ g.country = h.country
        /\ g.state_province = h.state_province /\ g.state_province # Null
        /\ g.city = h.city /\ g.city # Null

\* update_location_summaries on the object conn
update_location_summaries(conn, incs, locs, seq) ==
    IF ~IsConnection(conn)
    THEN [outcome |-> "AttributeError", table |-> locs, seq |-> seq,
          value |-> 0]
    ELSE IF LocationsUniqueViolation(LocationGroups(incs))
    THEN [outcome |-> "IntegrityError", table |-> locs, seq |-> seq,
          value |-> 0]
    ELSE LET fresh == WithIds(LocationGroups(incs), seq)
         IN  [outcome |-> "returned",
              table |-> fresh,
              seq |-> seq + Len(fresh),
              value |-> Len(fresh)]

\* run_full_pipeline: the three steps in order, each on the object its own
\* get_connection() call returns; an exception of a step ends the pipeline
\* (step: the step that raised, 0 when none did)
PipelineRaised(step, outcome, incs, trends, locs, seq) ==
    [outcome |-> outcome, step |-> step, incidents |-> incs,
     daily_trends |-> trends, locations |-> locs, seq |-> seq, value |-> 0]

\* run_full_pipeline from its third call on: c and t are what the first two
\* calls returned.
PipelineLocations(c, t, l, locs, seq) ==
    IF l.outcome # "returned"
    THEN PipelineRaised(3, l.outcome, c.incidents, t.table, locs,
                        [seq EXCEPT !.daily_trends = t.seq])
    ELSE [outcome |-> "returned", step |-> 0, incidents |-> c.incidents,
          daily_trends |-> t.table, locations |-> l.table,
          seq |-> [daily_trends |-> t.seq, locations |-> l.seq],
          value |-> [classifications_updated |-> c.value,
                     trends_generated |-> t.value,
                     locations_updated |-> l.value]]

\* run_full_pipeline from its second call on.
PipelineTrends(conn, c, t, trends, locs, seq) ==
    IF t.outcome # "returned"
    THEN PipelineRaised(2, t.outcome, c.incidents, trends, locs, seq)
    ELSE PipelineLocations(
             c, t,
             update_location_summaries(conn, c.incidents, locs, seq.locations),
             locs, seq)

PipelineClassified(conn, c, trends, locs, seq) ==
    IF c.outcome # "returned"
    THEN PipelineRaised(1, c.outcome, c.incidents, trends, locs, seq)
    ELSE PipelineTrends(
             conn, c,
             update_daily_trends(conn, c.incidents, trends, seq.daily_trends),
             trends, locs, seq)

run_full_pipeline(conn, incs, trends, locs, seq) ==
    PipelineClassified(conn, update_incident_classifications(conn, incs),
                       trends, locs, seq)


(***************************************************************************)
(* State                                                                   *)
(***************************************************************************)
VARIABLES
    incidents,        \* committed rows of the incidents table
    daily_trends,     \* committed rows of the daily_trends table
    locations,        \* committed rows of the locations table
    sqlite_sequence,  \* AUTOINCREMENT counters of the derived tables
    sources,          \* the sources table, by name
    hashSeed,         \* str-hash seed of the running interpreter
    pc,               \* "idle" between calls, "bulk" inside
                      \* bulk_insert_incidents, "returned" when a call ended
    txn,              \* the open bulk insert: its connection's view and counts
    ret,              \* the call that ended last: how, with what value
    submitted,        \* source_ids of all batches that committed
    runs              \* the ingestion runs of concurrent processes: what
                      \* upstream serves, each run's position and open
                      \* transaction, and what the commits counted

vars == <<incidents, daily_trends, locations, sqlite_sequence, sources,
          hashSeed, pc, txn, ret, submitted, runs>>

NoTxn ==
    [source |-> Null, batch |-> <<>>, i |-> 0, inserted |-> 0,
     duplicates |-> 0, rows |-> <<>>]

\* op: the function; outcome: "returned" or the exception raised; value: what
\* it returned (for a scrape of one source: its entry of the report, with the
\* source and whether the fetch hit a network or parse error)
Ret(op, outcome, value) ==
    [op |-> op, outcome |-> outcome, value |-> value]

\* the results dict a scrape_all_* call starts with
NoResults ==
    [total_incidents |-> 0, total_inserted |-> 0, total_duplicates |-> 0,
     by_source |-> <<>>]

\* a report that leaves the duplicates out of the totals
AddReportNoDuplicates(res, name, report) ==
    [total_incidents |-> res.total_incidents + report.fetched,
     total_inserted |-> res.total_inserted + report.inserted,
     total_duplicates |-> res.total_duplicates,
     by_source |-> (name :> report) @@ res.by_source]

\* the per-source report of a source that delivered incidents, and the totals
AddReport(res, name, report) ==
    [total_incidents |-> res.total_incidents + report.fetched,
     total_inserted |-> res.total_inserted + report.inserted,
     total_duplicates |-> res.total_duplicates + report.duplicates,
     by_source |-> (name :> report) @@ res.by_source]

\* the report of a city that delivered nothing: the totals stay
AddErrorReport(res, name) ==
    [res EXCEPT !.by_source =
        (name :> [fetched |-> 0, inserted |-> 0, duplicates |-> 0,
                  error |-> TRUE]) @@ res.by_source]

\* the order in which a run scrapes the cities and the news sources
CityOrder == <<"city_chicago", "city_toronto">>

NewsOrder == <<"newsapi", "google_news", "industry_rss">>

\* scrape_all_cities and scrape_all_news: the results dict after the sources
\* names were scraped in order, report_of[n] being what the fetch and
\* bulk_insert_incidents of source n gave
RECURSIVE scrape_all(_, _, _)
scrape_all(names, report_of, res) ==
    IF names = <<>> THEN res
    ELSE LET n == Head(names)
         IN  scrape_all(Tail(names), report_of,
                IF report_of[n].fetched > 0
                THEN AddReport(res, n, report_of[n])
                ELSE IF n \in NewsSources THEN res
                ELSE AddErrorReport(res, n))

\* no call has ended since the caller went on
NoRet == Ret("none", "none", 0)

\* no concurrent runs
NoRuns == [upstream |-> <<>>, run |-> <<>>, log |-> {}, restarts |-> 0]

\* init_db(): empty tables
Init ==
    /\ incidents = <<>>
    /\ daily_trends = <<>>
    /\ locations = <<>>
    /\ sqlite_sequence = [daily_trends |-> 0, locations |-> 0]
    /\ sources = [n \in StatusNames |->
                    [known |-> FALSE, last_success |-> FALSE,
                     total_incidents |-> 0]]
    /\ hashSeed = 1
    /\ pc = "idle"
    /\ txn = NoTxn
    /\ ret = Ret("init_db", "returned", 0)
    /\ submitted = {}
    /\ runs = NoRuns

(***************************************************************************)
(* Operations                                                              *)
(***************************************************************************)
\* a new interpreter starts (one per run of run_scraper.py) and draws its
\* string-hash seed
StartProcess(seed) ==
    /\ pc = "idle"
    /\ hashSeed' = seed
    /\ pc' = "returned"
    /\ ret' = Ret("main", "started", 0)
    /\ UNCHANGED <<incidents, daily_trends, locations, sqlite_sequence,
                   sources, txn, submitted>>
    /\ UNCHANGED runs

\* `with get_connection() as conn:` of bulk_insert_incidents
BeginBulk(source, batch) ==
    /\ IsConnection(EnterContext(GetConnection))
    /\ pc' = "bulk"
    /\ txn' = [source |-> source, batch |-> batch, i |-> 1, inserted |-> 0,
               duplicates |-> 0, rows |-> incidents]

\* scrape_all_cities, one iteration of its loop up to the call of
\* bulk_insert_incidents
ScrapeCity(city_key, response) ==
    /\ pc = "idle"
    /\ LET incs == fetch_city_data(city_key, response, hashSeed)
       IN  /\ Len(incidents) + Len(incs) <= MaxRows
           /\ IF incs # <<>>
              THEN /\ BeginBulk("city_" \o city_key, incs)
                   /\ ret' = Ret("fetch_city_data", "returned", Len(incs))
                   /\ UNCHANGED sources
              ELSE /\ sources' = update_source_status(
                                    sources, "city_" \o city_key, FALSE, 0)
                   /\ ret' = Ret("scrape_city", "returned",
                                 [source |-> "city_" \o city_key,
                                  fetch_failed |-> ~response.ok,
                                  fetched |-> 0, inserted |-> 0,
                                  duplicates |-> 0, error |-> TRUE])
                   /\ pc' = "returned"
                   /\ UNCHANGED txn
    /\ UNCHANGED <<incidents, daily_trends, locations, sqlite_sequence,
                   hashSeed, submitted>>
    /\ UNCHANGED runs

\* scrape_all_news, one of its three blocks up to the call of
\* bulk_insert_incidents
ScrapeNews(source, response) ==
    /\ pc = "idle"
    /\ LET incs == fetch_news(source, response)
       IN  /\ Len(incidents) + Len(incs) <= MaxRows
           /\ IF incs # <<>>
              THEN /\ BeginBulk(source, incs)
                   /\ ret' = Ret("fetch_news", "returned", Len(incs))
              ELSE /\ ret' = Ret("scrape_news", "returned",
                                 [source |-> source,
                                  fetch_failed |-> ~response.ok,
                                  fetched |-> 0, inserted |-> 0,
                                  duplicates |-> 0, error |-> FALSE])
                   /\ pc' = "returned"
                   /\ UNCHANGED txn
    /\ UNCHANGED <<incidents, daily_trends, locations, sqlite_sequence,
                   sources, hashSeed, submitted>>
    /\ UNCHANGED runs

\* bulk_insert_incidents, one iteration of its loop; when insert_incident
\* raises, the error leaves the `with` block, which closes the connection, and
\* bulk_insert_incidents and its caller
InsertIncident(store_error) ==
    /\ pc = "bulk"
    /\ txn.i <= Len(txn.batch)
    /\ LET r == insert_incident(txn.rows, txn.batch[txn.i], store_error)
       IN  IF r.raised = Null
           THEN /\ txn' = [txn EXCEPT
                             !.rows = r.rows,
                             !.i = @ + 1,
                             !.inserted = IF r.ok THEN @ + 1 ELSE @,
                             !.duplicates = IF r.ok THEN @ ELSE @ + 1]
                /\ ret' = Ret("insert_incident", "returned", r.ok)
                /\ UNCHANGED <<incidents, pc>>
           ELSE /\ incidents' = Close(incidents, r.rows)
                /\ pc' = "returned"
                /\ txn' = NoTxn
                /\ ret' = Ret("bulk_insert_incidents", ErrorType(r.raised),
                              [fetched |-> Len(txn.batch),
                               inserted |-> txn.inserted,
                               duplicates |-> txn.duplicates,
                               source_id |-> txn.batch[txn.i].source_id])
    /\ UNCHANGED <<daily_trends, locations, sqlite_sequence, sources,
                   hashSeed, submitted>>
    /\ UNCHANGED runs

\* conn.commit() and the return of bulk_insert_incidents, then the caller's
\* update_source_status(name, True, inserted) and its per-source report
CommitBulk ==
    /\ pc = "bulk"
    /\ txn.i > Len(txn.batch)
    /\ incidents' = txn.rows
    /\ sources' = update_source_status(sources, txn.source, TRUE,
                                       txn.inserted)
    /\ submitted' = submitted \cup
                      {txn.batch[k].source_id : k \in 1..Len(txn.batch)}
    /\ ret' = Ret("bulk_insert_incidents", "returned",
                  [fetched |-> Len(txn.batch), inserted |-> txn.inserted,
                   duplicates |-> txn.duplicates, error |-> FALSE])
    /\ pc' = "returned"
    /\ txn' = NoTxn
    /\ UNCHANGED <<daily_trends, locations, sqlite_sequence, hashSeed>>
    /\ UNCHANGED runs

\* update_incident_classifications()
UpdateIncidentClassifications ==
    /\ pc = "idle"
    /\ LET r == update_incident_classifications(GetConnection, incidents)
       IN  /\ incidents' = r.incidents
           /\ ret' = Ret("update_incident_classifications", r.outcome,
                         r.value)
    /\ pc' = "returned"
    /\ UNCHANGED <<daily_trends, locations, sqlite_sequence, sources,
                   hashSeed, txn, submitted>>
    /\ UNCHANGED runs

\* update_daily_trends()
UpdateDailyTrends ==
    /\ pc = "idle"
    /\ LET r == update_daily_trends(GetConnection, incidents, daily_trends,
                                    sqlite_sequence.daily_trends)
       IN  /\ r.seq <= MaxRowId
           /\ daily_trends' = r.table
           /\ sqlite_sequence' =
                 [sqlite_sequence EXCEPT !.daily_trends = r.seq]
           /\ ret' = Ret("update_daily_trends", r.outcome, r.value)
    /\ pc' = "returned"
    /\ UNCHANGED <<incidents, locations, sources, hashSeed, txn,
                   submitted>>
    /\ UNCHANGED runs

\* update_location_summaries()
UpdateLocationSummaries ==
    /\ pc = "idle"
    /\ LET r == update_location_summaries(GetConnection, incidents,
                                          locations,
                                          sqlite_sequence.locations)
       IN  /\ r.seq <= MaxRowId
           /\ locations' = r.table
           /\ sqlite_sequence' = [sqlite_sequence EXCEPT !.locations = r.seq]
           /\ ret' = Ret("update_location_summaries", r.outcome, r.value)
    /\ pc' = "returned"
    /\ UNCHANGED <<incidents, daily_trends, sources, hashSeed, txn,
                   submitted>>
    /\ UNCHANGED runs

\* run_full_pipeline(), the last phase of run_full_scrape
RunFullPipeline ==
    /\ pc = "idle"
    /\ LET r == run_full_pipeline(GetConnection, incidents, daily_trends,
                                  locations, sqlite_sequence)
       IN  /\ r.seq.daily_trends <= MaxRowId
           /\ r.seq.locations <= MaxRowId
           /\ incidents' = r.incidents
           /\ daily_trends' = r.daily_trends
           /\ locations' = r.locations
           /\ sqlite_sequence' = r.seq
           /\ ret' = Ret("run_full_pipeline", r.outcome,
                         [step |-> r.step, counts |-> r.value])
    /\ pc' = "returned"
    /\ UNCHANGED <<sources, hashSeed, txn, submitted>>
    /\ UNCHANGED runs

\* the caller goes on to its next call
Resume ==
    /\ pc = "returned"
    /\ pc' = "idle"
    /\ ret' = NoRet
    /\ UNCHANGED <<incidents, daily_trends, locations, sqlite_sequence,
                   sources, hashSeed, txn, submitted>>
    /\ UNCHANGED runs

Responses(feed) ==
    {[ok |-> FALSE, data |-> <<>>]}
      \cup {[ok |-> TRUE, data |-> d] : d \in SeqsUpTo(feed, MaxBatch)}

Next ==
    \/ \E seed \in 1..NumSeeds : StartProcess(seed)
    \/ \E k \in CityKeys : \E resp \in Responses(CityFeed(k)) :
          ScrapeCity(k, resp)
    \/ \E src \in NewsSources : \E resp \in Responses(NewsFeed) :
          ScrapeNews(src, resp)
    \/ \E e \in StoreErrors \cup {Null} : InsertIncident(e)
    \/ CommitBulk
    \/ UpdateIncidentClassifications
    \/ UpdateDailyTrends
    \/ UpdateLocationSummaries
    \/ RunFullPipeline
    \/ Resume

Spec == Init /\ [][Next]_vars


(***************************************************************************)
(* Concurrent ingestion runs                                               *)
(*                                                                         *)
(* Each run is its own process with its own string-hash seed. It scrapes   *)
(* its cities in order; every bulk_insert_incidents and every              *)
(* update_source_status opens its own connection. SQLite lets one          *)
(* connection write at a time: a connection holds the write lock from its  *)
(* first INSERT statement, failed or not, until it commits or closes, and  *)
(* a statement of another connection that has to write meanwhile fails     *)
(* with "database is locked" once its timeout expires.                     *)
(***************************************************************************)
RunIds == {1, 2}

MaxRestarts == 1    \* aborted runs that are started again

\* the cities of scrape_all_cities a run is followed through, in order
RunCities == <<"chicago">>

\* a run at its start; attempt counts the times it was started again
NewRun(seed, attempt) ==
    [pc |-> "fetch", seed |-> seed, k |-> 1, batch |-> <<>>, i |-> 0,
     inserted |-> 0, duplicates |-> 0, rows |-> <<>>,
     attempt |-> attempt]

\* the run's connection has executed an INSERT and has not committed
HoldsWriteLock(run) == run.pc = "bulk" /\ run.i > 1

WriteLocked(r) == \E q \in RunIds \ {r} : HoldsWriteLock(runs.run[q])

\* what the run's connection sees: the committed rows, and its own inserts
\* once it holds the write lock
RunView(run) == IF run.i > 1 THEN run.rows ELSE incidents

\* the run goes on to its next city, or ends
NextCity(run) ==
    IF run.k < Len(RunCities)
    THEN [run EXCEPT !.pc = "fetch", !.k = @ + 1, !.batch = <<>>,
                     !.i = 0, !.inserted = 0, !.duplicates = 0,
                     !.rows = <<>>]
    ELSE [run EXCEPT !.pc = "done", !.batch = <<>>, !.i = 0,
                     !.inserted = 0, !.duplicates = 0, !.rows = <<>>]

\* an empty store, what upstream serves to every run, and the runs at their
\* start; they start with one seed, so that all their source_ids coincide,
\* and draw a new one when they are started again
InitRuns ==
    /\ incidents = <<>>
    /\ daily_trends = <<>>
    /\ locations = <<>>
    /\ sqlite_sequence = [daily_trends |-> 0, locations |-> 0]
    /\ sources = [n \in StatusNames |->
                    [known |-> FALSE, last_success |-> FALSE,
                     total_incidents |-> 0]]
    /\ hashSeed = 1
    /\ pc = "idle"
    /\ txn = NoTxn
    /\ ret = Ret("init_db", "returned", 0)
    /\ submitted = {}
    /\ \E resp \in Responses(CityFeed("chicago")) :
          runs = [upstream |-> [k \in {"chicago"} |-> resp],
                  run |-> [r \in RunIds |-> NewRun(hashSeed, 0)],
                  log |-> {}, restarts |-> 0]

\* fetch_city_data for the run's next city
RunFetch(r) ==
    LET me == runs.run[r]
        key == RunCities[me.k]
        incs == fetch_city_data(key, runs.upstream[key], me.seed)
    IN  /\ me.pc = "fetch"
        /\ runs' = [runs EXCEPT !.run[r] =
                       [me EXCEPT !.pc = IF incs # <<>> THEN "bulk"
                                         ELSE "status",
                                  !.batch = incs, !.i = 1]]
        /\ UNCHANGED <<incidents, daily_trends, locations, sqlite_sequence,
                       sources, hashSeed, pc, txn, ret, submitted>>

\* insert_incident on the run's connection while no other connection holds
\* the write lock
RunInsert(r) ==
    LET me == runs.run[r]
        res == insert_incident(RunView(me), me.batch[me.i], Null)
    IN  /\ me.pc = "bulk"
        /\ me.i <= Len(me.batch)
        /\ ~WriteLocked(r)
        /\ runs' = [runs EXCEPT !.run[r] =
                       [me EXCEPT !.rows = res.rows,
                                  !.i = @ + 1,
                                  !.inserted = IF res.ok THEN @ + 1 ELSE @,
                                  !.duplicates = IF res.ok THEN @
                                                 ELSE @ + 1]]
        /\ UNCHANGED <<incidents, daily_trends, locations, sqlite_sequence,
                       sources, hashSeed, pc, txn, ret, submitted>>

\* insert_incident while another connection holds the write lock: the
\* INSERT fails with "database is locked", insert_incident raises it again
\* and the run ends with the exception, its connection closed
RunLocked(r) ==
    LET me == runs.run[r]
        res == insert_incident(RunView(me), me.batch[me.i],
                               "database is locked")
    IN  /\ me.pc = "bulk"
        /\ me.i <= Len(me.batch)
        /\ WriteLocked(r)
        /\ res.raised # Null
        /\ incidents' = Close(incidents, res.rows)
        /\ runs' = [runs EXCEPT !.run[r] = [me EXCEPT !.pc = "aborted"]]
        /\ UNCHANGED <<daily_trends, locations, sqlite_sequence, sources,
                       hashSeed, pc, txn, ret, submitted>>

\* conn.commit() and the return of bulk_insert_incidents; log records, for
\* every incident of the batch, whether this commit counted it as inserted
RunCommit(r) ==
    LET me == runs.run[r]
        counted(b) == \E j \in 1..Len(me.rows) :
                         /\ j > Len(incidents)
                         /\ me.rows[j].source_id = me.batch[b].source_id
                         /\ \A a \in 1..(b - 1) :
                               me.batch[a].source_id # me.batch[b].source_id
    IN  /\ me.pc = "bulk"
        /\ me.i > Len(me.batch)
        /\ incidents' = me.rows
        /\ runs' = [runs EXCEPT
                       !.run[r] = [me EXCEPT !.pc = "status"],
                       !.log = @ \cup
                          {[run |-> r, attempt |-> me.attempt,
                            source_name |-> me.batch[b].source_name,
                            raw_data |-> me.batch[b].raw_data,
                            source_id |-> me.batch[b].source_id,
                            b |-> b,
                            inserted |-> counted(b)]
                             : b \in 1..Len(me.batch)}]
        /\ UNCHANGED <<daily_trends, locations, sqlite_sequence, sources,
                       hashSeed, pc, txn, ret, submitted>>

\* update_source_status after the bulk insert (or after an empty fetch), on
\* a connection of its own
RunStatus(r) ==
    LET me == runs.run[r]
    IN  /\ me.pc = "status"
        /\ ~WriteLocked(r)
        /\ sources' = update_source_status(
                          sources, "city_" \o RunCities[me.k],
                          me.batch # <<>>, me.inserted)
        /\ runs' = [runs EXCEPT !.run[r] = NextCity(me)]
        /\ UNCHANGED <<incidents, daily_trends, locations, sqlite_sequence,
                       hashSeed, pc, txn, ret, submitted>>

\* update_source_status while another connection holds the write lock: it
\* raises "database is locked" and the run ends, its batch committed
RunStatusLocked(r) ==
    LET me == runs.run[r]
    IN  /\ me.pc = "status"
        /\ WriteLocked(r)
        /\ runs' = [runs EXCEPT !.run[r] = [me EXCEPT !.pc = "aborted"]]
        /\ UNCHANGED <<incidents, daily_trends, locations, sqlite_sequence,
                       sources, hashSeed, pc, txn, ret, submitted>>

\* the host ends the process in the middle of a batch or before the status
\* update: an open transaction is rolled back
RunKill(r) ==
    LET me == runs.run[r]
    IN  /\ me.pc \in {"bulk", "status"}
        /\ incidents' = Close(incidents, RunView(me))
        /\ runs' = [runs EXCEPT !.run[r] = [me EXCEPT !.pc = "aborted"]]
        /\ UNCHANGED <<daily_trends, locations, sqlite_sequence, sources,
                       hashSeed, pc, txn, ret, submitted>>

\* the run is started again: a new process, with a new string-hash seed
RunRestart(r) ==
    LET me == runs.run[r]
    IN  /\ me.pc = "aborted"
        /\ runs.restarts < MaxRestarts
        /\ \E seed \in 1..NumSeeds :
              runs' = [runs EXCEPT !.run[r] = NewRun(seed, me.attempt + 1),
                                   !.restarts = @ + 1]
        /\ UNCHANGED <<incidents, daily_trends, locations, sqlite_sequence,
                       sources, hashSeed, pc, txn, ret, submitted>>

NextRuns ==
    \E r \in RunIds :
        \/ RunFetch(r)
        \/ RunInsert(r)
        \/ RunLocked(r)
        \/ RunCommit(r)
        \/ RunStatus(r)
        \/ RunStatusLocked(r)
        \/ RunKill(r)
        \/ RunRestart(r)

SpecRuns == InitRuns /\ [][NextRuns]_vars


(***************************************************************************)
(* Claims                                                                  *)
(***************************************************************************)
MaxWords == 2       \* phrases in a text given to the severity estimators

\* the texts and the types the severity estimators are applied to
Texts == {t \in SUBSET Vocabulary : Cardinality(t) <= MaxWords}

SeverityTypes == Taxonomy \cup {Null, "", "unknown", "THEFT"}

\* C1: the incidents table holds at most one row per source_id, and exactly
\* one row for every source_id submitted in a batch that committed.
C1_OneRowPerSourceId ==
    /\ \A i, j \in 1..Len(incidents) :
          incidents[i].source_id = incidents[j].source_id => i = j
    /\ \A sid \in submitted :
          Cardinality({i \in 1..Len(incidents) :
                          incidents[i].source_id = sid}) = 1

\* a committed batch of two incidents with one source_id left a single row
C1_Witness ==
    /\ ret.op = "bulk_insert_incidents"
    /\ ret.value.fetched = 2
    /\ ret.value.inserted = 1
    /\ ret.value.duplicates = 1
    /\ Len(incidents) = 1

\* C2: insert_incident on an incident whose source_id is already stored
\* returns False and changes no stored row, whatever its other fields are.
C2_CollisionIsNoUpdate ==
    [][ ( /\ pc = "bulk"
          /\ pc' = "bulk"
          /\ txn'.i = txn.i + 1
          /\ \E k \in 1..Len(txn.rows) :
                txn.rows[k].source_id = txn.batch[txn.i].source_id )
        => ( /\ ret'.op = "insert_incident"
             /\ ret'.value = FALSE
             /\ txn'.rows = txn.rows
             /\ incidents' = incidents ) ]_vars

\* insert_incident returned False for an incident whose type and date differ
\* from those of the stored row with its source_id
C2_Witness ==
    /\ pc = "bulk"
    /\ ret.op = "insert_incident"
    /\ ret.value = FALSE
    /\ \E k \in 1..Len(txn.rows) :
          /\ txn.rows[k].source_id = txn.batch[txn.i - 1].source_id
          /\ txn.rows[k].incident_type # txn.batch[txn.i - 1].incident_type
          /\ txn.rows[k].incident_date # txn.batch[txn.i - 1].incident_date

\* C3: a raw record that an earlier run ingested is reported as a duplicate
\* when a later run ingests it again and stays stored once; a record the
\* store holds nothing of is reported as inserted.
C3_SameRecordTwiceIsOneIncident ==
    (pc = "bulk" /\ ret.op = "insert_incident") =>
        LET inc == txn.batch[txn.i - 1]
            of(rows) == {k \in 1..Len(rows) :
                            /\ rows[k].source_name = inc.source_name
                            /\ rows[k].raw_data = inc.raw_data}
        IN  /\ of(incidents) # {} =>
                  ret.value = FALSE /\ Cardinality(of(txn.rows)) = 1
            /\ ( /\ \A k \in 1..Len(incidents) :
                       incidents[k].source_id # inc.source_id
                 /\ \A k \in 1..(txn.i - 2) :
                       txn.batch[k].source_id # inc.source_id )
               => ret.value = TRUE /\ Cardinality(of(txn.rows)) = 1

\* C4: the source_id of a raw record is the same in every run: it is
\* '{city_key}_{id}' when the record has a natural id, and two stored
\* incidents of one source with identical raw records have one source_id.
C4_SourceIdStableAcrossRuns ==
    \A i, j \in 1..Len(incidents) :
        /\ ( incidents[i].source_type = "police_api"
             /\ incidents[i].raw_data.id # Null )
           => incidents[i].source_id =
                 incidents[i].source_name \o "_" \o incidents[i].raw_data.id
        /\ ( /\ incidents[i].source_name = incidents[j].source_name
             /\ incidents[i].raw_data = incidents[j].raw_data )
           => incidents[i].source_id = incidents[j].source_id

\* C5: after update_daily_trends, for every key whose date is in the window,
\* daily_trends has a row iff some stored incident has the key, and its
\* incident_count is the number of those incidents.
C5_TrendsMatchIncidents ==
    ret.op = "update_daily_trends" =>
        LET inc == {i \in 1..Len(incidents) :
                       InWindow(incidents[i].incident_date)}
            rws == {i \in 1..Len(daily_trends) :
                       daily_trends[i].date >= WindowStart}
            key(r) == <<r.date, r.country, r.state_province, r.city,
                        r.incident_type>>
        IN  /\ \A i \in inc : \E r \in rws :
                  key(daily_trends[r]) = TrendKey(incidents[i])
            /\ \A r \in rws :
                  /\ daily_trends[r].incident_count =
                        Cardinality({i \in inc : TrendKey(incidents[i])
                                                   = key(daily_trends[r])})
                  /\ daily_trends[r].incident_count > 0
                  /\ \A q \in rws :
                        key(daily_trends[q]) = key(daily_trends[r]) => q = r

\* C6: after update_location_summaries, locations has exactly one row per
\* (country, country_code, state_province, city) occurring among all stored
\* incidents, with the number of those incidents, and the counts sum to the
\* number of stored incidents.
C6_LocationsMatchIncidents ==
    ret.op = "update_location_summaries" =>
        LET all == 1..Len(incidents)
            rws == 1..Len(locations)
        IN  /\ \A i \in all :
                  Cardinality({r \in rws : LocationKey(locations[r])
                                             = LocationKey(incidents[i])}) = 1
            /\ \A r \in rws :
                  locations[r].incident_count =
                     Cardinality({i \in all : LocationKey(incidents[i])
                                                = LocationKey(locations[r])})
            /\ SumOver([r \in rws |-> locations[r].incident_count], rws)
                  = Len(incidents)

C9_StoredTypeInTaxonomy ==
    \A i \in 1..Len(incidents) : incidents[i].incident_type \in Taxonomy

\* the severity estimators on every type and text
SeverityInRange ==
    \A t \in SeverityTypes : \A x \in Texts :
        /\ calculate_severity_from_type(t, x) \in 1..5
        /\ calculate_severity(x, t) \in 1..5

\* C10: both severity estimators return an integer in 1..5 for every type and
\* text, and every stored incident has a severity in 1..5.
C10_SeverityInRange ==
    /\ SeverityInRange
    /\ \A i \in 1..Len(incidents) : incidents[i].severity \in 1..5
    /\ \A i \in 1..Len(txn.rows) : txn.rows[i].severity \in 1..5

\* after a classification repair was run, the store holds a news incident
\* whose severity was cut to 5 and a city incident stored with severity 1
C10_Witness ==
    /\ ret.op = "update_incident_classifications"
    /\ \E i, j \in 1..Len(incidents) :
          /\ incidents[i].source_type = "news"
          /\ incidents[i].severity = 5
          /\ Contains(FullText(incidents[i].raw_data), "organized")
          /\ Contains(FullText(incidents[i].raw_data), "murder")
          /\ Contains(FullText(incidents[i].raw_data), "spree")
          /\ incidents[j].source_type = "police_api"
          /\ incidents[j].severity = 1

\* the severity estimators with one more keyword in the text
SeverityMonotone ==
    \A t \in SeverityTypes : \A x \in Texts :
        /\ \A k \in escalation_words :
              calculate_severity_from_type(t, x \cup {k})
                 >= calculate_severity_from_type(t, x)
        /\ \A k \in deescalation_words :
              calculate_severity_from_type(t, x \cup {k})
                 <= calculate_severity_from_type(t, x)
        /\ \A k \in violence_terms \cup scale_terms \cup {"organized"} :
              calculate_severity(x \cup {k}, t) >= calculate_severity(x, t)
        /\ \A k \in minor_terms :
              calculate_severity(x \cup {k}, t) <= calculate_severity(x, t)

\* C11: for both severity estimators, every type and every text, one more
\* escalation keyword in the text never lowers the severity and one more
\* de-escalation keyword never raises it; a second call on the type and text
\* of a stored news incident returns the severity the first call stored.
C11_SeverityMonotoneDeterministic ==
    /\ SeverityMonotone
    /\ \A i \in 1..Len(incidents) :
          incidents[i].source_type \in {"news", "rss"} =>
              incidents[i].severity =
                 calculate_severity(FullText(incidents[i].raw_data),
                                    incidents[i].incident_type)

\* keywords that do move the severity, up and down, in both estimators, and a
\* stored news incident whose severity a phrase of its text has raised
C11_Witness ==
    /\ calculate_severity_from_type("theft", {"THEFT", "felony"})
          > calculate_severity_from_type("theft", {"THEFT"})
    /\ calculate_severity_from_type("theft", {"THEFT", "petty"})
          < calculate_severity_from_type("theft", {"THEFT"})
    /\ calculate_severity({"THEFT", "small"}, "theft")
          < calculate_severity({"THEFT"}, "theft")
    /\ \E i \in 1..Len(incidents) :
          /\ incidents[i].source_type = "news"
          /\ \E p \in FullText(incidents[i].raw_data) :
                calculate_severity(FullText(incidents[i].raw_data) \ {p},
                                   incidents[i].incident_type)
                   < incidents[i].severity

\* the texts the classifiers are applied to: the texts of the vocabulary and
\* every text made of one or two keywords of the classifiers' tables
ClassifierTexts ==
    LET kws == TableKeywords(CRIME_TYPE_MAPPINGS \o police_codes
                               \o classifications)
    IN  Texts \cup {{k1, k2} : k1, k2 \in kws}

\* the classifiers on every text
ClassifiersTakeFirstCategory ==
    \A x \in ClassifierTexts :
        LET general == CRIME_TYPE_MAPPINGS \o police_codes
            occurs(table, i) == \E kw \in table[i][2] : Contains(x, kw)
            first(table, r) ==
                \/ /\ r = "other"
                   /\ \A i \in 1..Len(table) : ~occurs(table, i)
                \/ \E i \in 1..Len(table) :
                      /\ table[i][1] = r
                      /\ occurs(table, i)
                      /\ \A j \in 1..(i - 1) : ~occurs(table, j)
            cats(table) == {table[i][1] : i \in {j \in 1..Len(table) :
                                                    occurs(table, j)}}
        IN  /\ first(general, normalize_crime_type(x))
            /\ first(classifications, classify_incident_type(x))
            /\ Cardinality(cats(general)) = 1
                  => normalize_crime_type(x) \in cats(general)
            /\ Cardinality(cats(classifications)) = 1
                  => classify_incident_type(x) \in cats(classifications)
            /\ x = {} => /\ normalize_crime_type(x) = "other"
                         /\ classify_incident_type(x) = "other"

\* C12: each classifier returns the first category of its table order that
\* has a keyword in the text, normalize_crime_type taking the general table
\* before the police-code table, and 'other' when no keyword occurs; a text
\* matching one category yields it, one matching two yields the earlier.
C12_FirstCategoryWins ==
    /\ ClassifiersTakeFirstCategory
    /\ \A i \in 1..Len(incidents) :
          incidents[i].source_type \in {"news", "rss"} =>
              \E c \in 1..Len(classifications) :
                 \/ /\ incidents[i].incident_type = "other"
                    /\ ~ContainsAny(FullText(incidents[i].raw_data),
                                    TableKeywords(classifications))
                 \/ /\ incidents[i].incident_type = classifications[c][1]
                    /\ ContainsAny(FullText(incidents[i].raw_data),
                                   classifications[c][2])
                    /\ \A b \in 1..(c - 1) :
                          ~ContainsAny(FullText(incidents[i].raw_data),
                                       classifications[b][2])

\* texts matching two categories, within a table and across the two tables of
\* normalize_crime_type, and a stored article matching orc and theft
C12_Witness ==
    /\ normalize_crime_type({"firearm"}) = "arson"
    /\ normalize_crime_type({"pocket-picking", "possession"}) = "drugs"
    /\ normalize_crime_type({"embezzlement"}) = "fraud"
    /\ classify_incident_type({"gunpoint", "theft ring"}) = "orc"
    /\ \E i \in 1..Len(incidents) :
          /\ incidents[i].source_type = "news"
          /\ incidents[i].incident_type = "orc"
          /\ Contains(FullText(incidents[i].raw_data), "theft ring")
          /\ Contains(FullText(incidents[i].raw_data), "stolen")

\* C13: every stored incident whose title or description names a retailer of
\* the list or contains "retail" has is_retail_related true, whichever path
\* ingested it.
C13_RetailTextIsRetailRelated ==
    \A i \in 1..Len(incidents) :
        LET text == {incidents[i].title, incidents[i].description} \ {Null}
        IN  ( \/ \E r \in Range(MAJOR_RETAILERS) : Contains(text, r)
              \/ Contains(text, "retail") )
            => incidents[i].is_retail_related = TRUE

\* C14: every incident handed to bulk_insert_incidents, and so every stored
\* incident, has an incident_date; a raw record or article without a usable
\* date is dropped before insertion.
C14_IncidentDatePresent ==
    /\ \A i \in 1..Len(txn.batch) : txn.batch[i].incident_date # NoDate
    /\ \A i \in 1..Len(incidents) : incidents[i].incident_date # NoDate

\* C15: in every incident fetch_city_data produces, latitude and longitude
\* are both present or both absent, and a coordinate that is not a number
\* makes both absent while the record is kept.
C15_LatLonBothOrNeither ==
    \A i \in 1..Len(incidents) :
        incidents[i].source_type = "police_api" =>
            /\ (incidents[i].latitude = NoCoord)
                  <=> (incidents[i].longitude = NoCoord)
            /\ ( \/ /\ incidents[i].raw_data.latitude # Null
                    /\ ~IsFloat(incidents[i].raw_data.latitude)
                 \/ /\ incidents[i].raw_data.longitude # Null
                    /\ ~IsFloat(incidents[i].raw_data.longitude) )
               => /\ incidents[i].latitude = NoCoord
                  /\ incidents[i].longitude = NoCoord

\* C16: when the fetch of one source fails with a network or parse error, the
\* scrape of that source ends without raising, contributes no incident, and
\* records the source's last_success as false, for city and news sources.
C16_FailedSourceRecorded ==
    (ret.op \in {"scrape_city", "scrape_news"} /\ ret.value.fetch_failed) =>
        /\ ret.outcome = "returned"
        /\ ret.value.fetched = 0
        /\ ret.value.inserted = 0
        /\ sources[ret.value.source].known
        /\ sources[ret.value.source].last_success = FALSE

\* C17: insert_incident returns False only for an incident whose source_id is
\* already stored, and that is then counted as a duplicate; when
\* bulk_insert_incidents ends by an error, it is the store's error, raised
\* from the insert in progress without another duplicate counted.
C17_OnlyDuplicatesReturnFalse ==
    [][ /\ ( /\ pc = "bulk"
             /\ ret'.op = "insert_incident"
             /\ ret'.value = FALSE )
           => /\ \E k \in 1..Len(txn.rows) :
                    txn.rows[k].source_id = txn.batch[txn.i].source_id
              /\ txn'.duplicates = txn.duplicates + 1
        /\ ( /\ pc = "bulk"
             /\ ret'.op = "bulk_insert_incidents"
             /\ ret'.outcome # "returned" )
           => /\ ret'.outcome = "OperationalError"
              /\ ret'.value.duplicates = txn.duplicates
              /\ ret'.value.inserted = txn.inserted
              /\ ret'.value.inserted + ret'.value.duplicates
                    < ret'.value.fetched
              /\ sources' = sources ]_vars

\* bulk_insert_incidents ended by the store's error on an incident whose
\* source_id is already stored: no duplicate was counted
C17_Witness ==
    /\ ret.op = "bulk_insert_incidents"
    /\ ret.outcome = "OperationalError"
    /\ ret.value.duplicates = 0
    /\ \E k \in 1..Len(incidents) :
          incidents[k].source_id = ret.value.source_id

\* C18: bulk_insert_incidents commits its batch as a whole or not at all: when
\* it returns, every source_id of the batch is stored; when it ends by an
\* error, the incidents table is as it was before the call.
C18_BatchCommittedOrRolledBack ==
    [][ (pc = "bulk" /\ pc' = "returned") =>
          IF ret'.outcome = "returned"
          THEN /\ incidents' = txn.rows
               /\ \A b \in 1..Len(txn.batch) :
                     \E k \in 1..Len(incidents') :
                        incidents'[k].source_id = txn.batch[b].source_id
          ELSE incidents' = incidents ]_vars

\* bulk_insert_incidents ended by an error after an insert of the batch had
\* succeeded, and the store holds no row
C18_Witness ==
    /\ ret.op = "bulk_insert_incidents"
    /\ ret.outcome # "returned"
    /\ ret.value.inserted = 1
    /\ ret.value.fetched = 2
    /\ incidents = <<>>

\* what a fetch followed by bulk_insert_incidents can report for one source
Reports ==
    {r \in [fetched : 0..MaxBatch, inserted : 0..MaxBatch,
            duplicates : 0..MaxBatch, error : {FALSE}] :
        r.fetched = r.inserted + r.duplicates}

\* the results dicts of scrape_all_cities and scrape_all_news
TotalsAreSums ==
    \A order \in {CityOrder, NewsOrder} :
      \A report_of \in [Range(order) -> Reports] :
        LET res == scrape_all(order, report_of, NoResults)
            by == res.by_source
            sum(field) == SumOver([n \in DOMAIN by |-> by[n][field]],
                                  DOMAIN by)
        IN  /\ \A n \in DOMAIN by :
                  by[n].fetched = by[n].inserted + by[n].duplicates
            /\ res.total_incidents = sum("fetched")
            /\ res.total_inserted = sum("inserted")
            /\ res.total_duplicates = sum("duplicates")

\* C19: when bulk_insert_incidents returns, inserted + duplicates is the length
\* of the batch and inserted is the number of distinct source_ids of the batch
\* that were not stored before the call; every per-source report has fetched =
\* inserted + duplicates and the run totals are the sums of the reports.
C19_CountsAddUp ==
    [][ ( /\ pc = "bulk"
          /\ ret'.op = "bulk_insert_incidents"
          /\ ret'.outcome = "returned" )
        => /\ ret'.value.inserted + ret'.value.duplicates = Len(txn.batch)
           /\ ret'.value.fetched = Len(txn.batch)
           /\ ret'.value.inserted =
                 Cardinality({txn.batch[b].source_id : b \in 1..Len(txn.batch)}
                   \ {incidents[k].source_id : k \in 1..Len(incidents)})
           /\ ret'.value \in Reports
           /\ TotalsAreSums ]_vars

\* a batch whose only incident was stored before the call returned with
\* nothing inserted and one duplicate
C19_Witness ==
    /\ ret.op = "bulk_insert_incidents"
    /\ ret.outcome = "returned"
    /\ ret.value.fetched = 1
    /\ ret.value.inserted = 0
    /\ ret.value.duplicates = 1
    /\ Len(incidents) = 1

C21_PipelineTerminatesNormally ==
    ret.op = "run_full_pipeline" =>
        /\ ret.outcome = "returned"
        /\ ret.value.step = 0
        /\ DOMAIN ret.value.counts =
              {"classifications_updated", "trends_generated",
               "locations_updated"}

\* C22: the pipeline of a run starts when no bulk insert is open, and when it
\* has ended every stored incident whose date is in the window is counted in
\* daily_trends under the incident_type it has after the repair.
C22_RunCountsItsIncidents ==
    [][ ret'.op = "run_full_pipeline" =>
          /\ pc = "idle" /\ txn = NoTxn
          /\ ret'.outcome = "returned"
          /\ \A i \in 1..Len(incidents') :
                InWindow(incidents'[i].incident_date) =>
                   \E r \in 1..Len(daily_trends') :
                      /\ <<daily_trends'[r].date, daily_trends'[r].country,
                            daily_trends'[r].state_province,
                            daily_trends'[r].city,
                            daily_trends'[r].incident_type>>
                            = TrendKey(incidents'[i])
                      /\ daily_trends'[r].incident_count =
                            Cardinality({j \in 1..Len(incidents') :
                               /\ InWindow(incidents'[j].incident_date)
                               /\ TrendKey(incidents'[j])
                                     = TrendKey(incidents'[i])}) ]_vars

\* calculate_severity_from_type against max(1, min(5, base + e) - d) on every
\* type and text, with the base values the table is specified to have
SeverityFromTypeClosedForm ==
    /\ \A t \in SeverityTypes : \A x \in Texts :
          LET e == IF \E k \in {"aggravated", "felony", "armed", "weapon",
                                "gun"} : Contains(x, k) THEN 1 ELSE 0
              d == IF \E k \in {"petty", "minor", "misdemeanor"} :
                         Contains(x, k) THEN 1 ELSE 0
              base == type_severity(t)
              sev == calculate_severity_from_type(t, x)
          IN  /\ sev = IMax(1, IMin(5, base + e) - d)
              /\ (base = 2 /\ d = 1 /\ e = 0) => sev = 1
              /\ (base = 5 /\ d = 1 /\ e = 1) => sev = 4
    /\ \A t \in {"homicide", "armed_robbery"} : type_severity(t) = 5
    /\ \A t \in {"theft", "shoplifting"} : type_severity(t) = 2
    /\ type_severity("trespass") = 1
    /\ \A t \in SeverityTypes \ Taxonomy : type_severity(t) = 2

\* C23: calculate_severity_from_type(type, text) is
\* max(1, min(5, base(type) + e) - d), with base the table lookup (2 for a
\* type not in the table), e = 1 iff the text has an escalation keyword and
\* d = 1 iff it has a de-escalation keyword; so it is for the type and the
\* description of every stored incident.
C23_SeverityFromTypeFormula ==
    /\ SeverityFromTypeClosedForm
    /\ \A i \in 1..Len(incidents) :
          LET x == {incidents[i].description} \ {Null}
              t == incidents[i].incident_type
              e == IF ContainsAny(x, escalation_words) THEN 1 ELSE 0
              d == IF ContainsAny(x, deescalation_words) THEN 1 ELSE 0
          IN  calculate_severity_from_type(t, x)
                 = IMax(1, IMin(5, type_severity(t) + e) - d)

\* a base-5 type with both kinds of keyword gives 4, and the store holds an
\* incident with a de-escalation keyword and no escalation keyword in its
\* description, whose normalized type has base 2 and which gets severity 1
C23_Witness ==
    /\ calculate_severity_from_type("homicide",
            {"armed robbery at gunpoint", "petty shoplifting at Target"}) = 4
    /\ \E i \in 1..Len(incidents) :
          LET x == {incidents[i].description} \ {Null}
              t == normalize_crime_type({incidents[i].incident_type} \cup x)
          IN  /\ ContainsAny(x, deescalation_words)
              /\ ~ContainsAny(x, escalation_words)
              /\ type_severity(t) = 2
              /\ calculate_severity_from_type(t, x) = 1

\* C24: in each severity estimator the increase over the starting value is at
\* most the number of escalation checks that fire on the text (each check
\* adds at most 1): one check in calculate_severity_from_type, the violence,
\* organized-crime and scale checks in calculate_severity.
C24_EscalationAddsOnePerCheck ==
    \A t \in SeverityTypes : \A x \in Texts :
        LET one(b) == IF b THEN 1 ELSE 0
            fired == one(ContainsAny(x, violence_terms))
                       + one(t = "orc" \/ Contains(x, "organized"))
                       + one(ContainsAny(x, scale_terms))
        IN  /\ calculate_severity_from_type(t, x)
                  <= type_severity(t) + one(ContainsAny(x, escalation_words))
            /\ calculate_severity(x, t) <= 2 + fired
            /\ calculate_severity(x, t) <= 2 + 3
            /\ \A i \in 1..Len(incidents) :
                  incidents[i].source_type \in {"news", "rss"} =>
                      incidents[i].severity <= 2 + 3

\* the texts extract_location_from_text is applied to: the texts of the
\* vocabulary and every text made of one or two city or state names
LocationTexts == Texts \cup {{a, b} : a, b \in PlaceNames}

\* extract_location_from_text on every text
LocationTakesCityFirst ==
    \A x \in LocationTexts :
        LET loc == extract_location_from_text(x)
            cities == {i \in 1..Len(major_cities) :
                          \E p \in x : major_cities[i][1] \in
                                           KeywordsIn(Lower(p))}
            states == {i \in 1..Len(us_states) :
                          \E p \in x : us_states[i][1] \in
                                           KeywordsIn(Lower(p))}
        IN  /\ cities # {} =>
                  \E i \in cities :
                     /\ \A j \in cities : i <= j
                     /\ loc.city = major_cities[i][2]
                     /\ loc.state_province = major_cities[i][3]
                     /\ \/ /\ major_cities[i][4] # Null
                           /\ loc.country = "United States"
                           /\ loc.country_code = "US"
                        \/ /\ major_cities[i][4] = Null
                           /\ loc.country = "Canada"
                           /\ loc.country_code = "CA"
            /\ (cities = {} /\ states # {}) =>
                  \E i \in states :
                     /\ \A j \in states : i <= j
                     /\ loc = [country |-> "United States",
                               country_code |-> "US",
                               state_province |-> us_states[i][2],
                               city |-> Null]
            /\ (cities = {} /\ states = {}) =>
                  loc = [country |-> Null, country_code |-> Null,
                         state_province |-> Null, city |-> Null]
            /\ (loc.country = Null) <=> (loc.country_code = Null)
            /\ loc.city # Null =>
                  (loc.state_province # Null /\ loc.country # Null)

\* C25: extract_location_from_text returns the first city of the city table
\* named in the text, with that city's state and country, whatever state
\* names the text has; without a city, the first state of the state table
\* named in the text, with United States / US and no city; without either,
\* four nulls. country is null iff country_code is, and a city comes with a
\* state_province and a country; so it is for every stored news incident.
C25_CityBeforeState ==
    /\ LocationTakesCityFirst
    /\ \A i \in 1..Len(incidents) :
          incidents[i].source_type \in {"news", "rss"} =>
             /\ (incidents[i].country = Null)
                   <=> (incidents[i].country_code = Null)
             /\ incidents[i].city # Null =>
                   /\ incidents[i].state_province # Null
                   /\ incidents[i].country # Null
                   /\ \E c \in 1..Len(major_cities) :
                         /\ major_cities[c][2] = incidents[i].city
                         /\ Contains(FullText(incidents[i].raw_data),
                                     major_cities[c][1])

\* a text naming a state and a city of another state gets the city, a text
\* naming a state only gets the state, and the store holds a news incident
\* located by the city its text names
C25_Witness ==
    /\ extract_location_from_text({"texas", "chicago"})
          = [country |-> "United States", country_code |-> "US",
             state_province |-> "Illinois", city |-> "Chicago"]
    /\ extract_location_from_text({"texas", "toronto"}).country = "Canada"
    /\ extract_location_from_text({"texas"}).state_province = "Texas"
    /\ extract_location_from_text({"texas"}).city = Null
    /\ \E i \in 1..Len(incidents) :
          /\ incidents[i].source_type = "news"
          /\ incidents[i].city = "Chicago"
          /\ incidents[i].state_province = "Illinois"
          /\ incidents[i].country_code = "US"

\* the texts extract_retailers is applied to: the texts of the vocabulary,
\* the empty text included, and every text made of one or two retailer names
RetailerTexts == Texts \cup {{a, b} : a, b \in Range(MAJOR_RETAILERS)}

\* extract_retailers on every text
ExtractRetailersFindsAll ==
    \A x \in RetailerTexts :
        LET found == extract_retailers(x)
            occurring == {r \in Range(MAJOR_RETAILERS) :
                            \E p \in x : r \in KeywordsIn(Lower(p))}
        IN  /\ Range(found) = {Title(r) : r \in occurring}
            /\ Len(found) = Cardinality(occurring)
            /\ \A i, j \in 1..Len(found) : found[i] = found[j] => i = j
            /\ x = {} => found = <<>>

\* C26: extract_retailers returns the title-cased names of exactly the
\* retailers of MAJOR_RETAILERS that occur in the lowercased text, each once,
\* all of them and not only the first, and the empty list for an empty
\* text; so is retailer_mentioned of every stored news incident.
C26_AllRetailersTitleCased ==
    /\ ExtractRetailersFindsAll
    /\ Title("walmart") = "Walmart" /\ Title("home depot") = "Home Depot"
    /\ \A i \in 1..Len(incidents) :
          incidents[i].source_type \in {"news", "rss"} =>
             \A r \in Range(MAJOR_RETAILERS) :
                Contains(FullText(incidents[i].raw_data), r)
                   <=> Title(r) \in Range(incidents[i].retailer_mentioned)

\* a text in capitals naming one retailer and a text naming two (one name a
\* substring of the other) get all of them, in list order, and a news
\* incident was stored with the retailers extract_retailers found in its text
C26_Witness ==
    /\ extract_retailers({"petty shoplifting at Target", "walmart"})
          = <<"Walmart", "Target">>
    /\ extract_retailers({"o'reilly"}) = <<"Rei", "O'Reilly">>
    /\ \E i \in 1..Len(incidents) :
          /\ incidents[i].source_type = "news"
          /\ incidents[i].retailer_mentioned
                = extract_retailers(FullText(incidents[i].raw_data))

CodeOfCountry(country) ==
    CASE country = "United States" -> "US"
      [] country = "Canada" -> "CA"
      [] country = Null -> Null

\* both ingestion paths give every incident the code of its country
CountryDeterminesCode ==
    /\ \A k \in CityKeys :
          /\ CITY_DATA_SOURCES(k).country \in {"United States", "Canada"}
          /\ CITY_DATA_SOURCES(k).country_code
                = CodeOfCountry(CITY_DATA_SOURCES(k).country)
    /\ \A x \in LocationTexts :
          LET loc == extract_location_from_text(x)
          IN  /\ loc.country \in {"United States", "Canada", Null}
              /\ loc.country_code = CodeOfCountry(loc.country)

\* C29: every incident stored, or inserted on an open connection, has the
\* country_code of its country (United States -> US, Canada -> CA, null ->
\* null); the groups update_location_summaries selects never include two
\* with the same (country, state_province, city), and no call of it ends
\* with a violation of UNIQUE(country, state_province, city).
C29_CountryCodeFollowsCountry ==
    /\ CountryDeterminesCode
    /\ \A rows \in {incidents, txn.rows} :
          /\ \A i \in 1..Len(rows) :
                /\ rows[i].country \in {"United States", "Canada", Null}
                /\ rows[i].country_code = CodeOfCountry(rows[i].country)
          /\ \A g, h \in LocationGroups(rows) :
                ( /\ g.country = h.country
                  /\ g.state_province = h.state_province
                  /\ g.city = h.city ) => g = h
          /\ ~LocationsUniqueViolation(LocationGroups(rows))
    /\ ret.op \in {"update_location_summaries", "run_full_pipeline"}
          => ret.outcome # "IntegrityError"

\* update_location_summaries was called on a store where an incident of the
\* city path and one of the news path fall into one group
C29_Witness ==
    /\ ret.op = "update_location_summaries"
    /\ \E i, j \in 1..Len(incidents) :
          /\ incidents[i].source_type = "police_api"
          /\ incidents[j].source_type = "news"
          /\ LocationKey(incidents[i]) = LocationKey(incidents[j])
          /\ LocationKey(incidents[i])
                = <<"United States", "US", "Illinois", "Chicago">>
    /\ \E g \in LocationGroups(incidents) : g.incident_count = 2

\* C30: whatever the interleaving of the runs' transactions, the store has
\* at most one row per source_id, every source_id the commits handled was
\* counted as inserted by exactly one commit and as a duplicate by every
\* other, and a run started again after an abort counts every record it
\* committed in an earlier attempt as a duplicate.
C30_InterleavedRunsDeduplicate ==
    /\ \A i, j \in 1..Len(incidents) :
          incidents[i].source_id = incidents[j].source_id => i = j
    /\ \A e \in runs.log :
          Cardinality({f \in runs.log : /\ f.source_id = e.source_id
                                        /\ f.inserted}) = 1
    /\ \A e \in runs.log :
          ( \E f \in runs.log : /\ f.run = e.run
                                /\ f.attempt < e.attempt
                                /\ f.source_name = e.source_name
                                /\ f.raw_data = e.raw_data )
             => ~e.inserted

=============================================================================
